---- MODULE Spec2Model ----
(***************************************************************************)
(* Verification model of the schema-stitching core of graphql-tools:       *)
(*   packages/utils/src/errors.ts            error relocation helpers      *)
(*   packages/stitch/src/typeCandidates.ts   type candidate collector and  *)
(*                                           type merger                   *)
(*   packages/wrap/src/transforms/TransformRootFields.ts                   *)
(***************************************************************************)
EXTENDS Integers, Sequences, FiniteSets, TLC

VARIABLES
    errCall,   \* last call of a single-error helper: its name and arguments
    errRet,    \* the GraphQLError that call returned
    errors,    \* the error list handed to the list helpers
    result,    \* a partial-result value, with its ERROR_SYMBOL slot
    listCall,  \* last call of a list helper
    byPathSegment, \* what getErrorsByPathSegment returned
    fieldErrors, \* what the last getErrors call returned
    schemaDefs,  \* { schemaDef, schemaExtensions } of the stitched schema
    operationTypeNames, \* global root type name of query, mutation, subscription
    namesBefore, \* operationTypeNames as passed to setOperationTypeNames
    namesSet,    \* whether setOperationTypeNames has run
    subschemaConfigs, \* the subschemas to stitch, in registration order
    typeDefs,    \* the document of the local type definitions, if any
    types,       \* the locally declared types
    typeCandidates, \* type name -> candidates
    policy,      \* mergeTypes, stitchingInfo and onTypeConflict
    typeMap,     \* the composite type map
    stage,       \* "inputs", "candidates" or "typeMap"
    nameCands,   \* the candidates a conflict callback selects among
    acc,         \* the accumulator of the reduce over nameCands
    nextIndex,   \* index of the next candidate the reduce takes
    conflicts,   \* the calls of the conflict callback made so far
    selected,    \* the type the selection put in the type map, once done
    transformer, \* TransformRootFields: this.transformer
    schemaCalls, \* the schemas passed to transformSchema, in call order
    served       \* the last transformRequest / transformResult call

errVars  == <<errCall, errRet>>
listVars == <<errors, result, listCall, byPathSegment, fieldErrors>>
nameVars == <<schemaDefs, operationTypeNames, namesBefore, namesSet>>
stitchVars == <<subschemaConfigs, typeDefs, types, typeCandidates, policy,
                typeMap, stage>>
selVars  == <<nameCands, acc, nextIndex, conflicts, selected>>
rootVars == <<transformer, schemaCalls, served>>
vars     == <<errCall, errRet, errors, result, listCall, byPathSegment, fieldErrors,
              schemaDefs, operationTypeNames, namesBefore, namesSet,
              subschemaConfigs, typeDefs, types, typeCandidates, policy,
              typeMap, stage, nameCands, acc, nextIndex, conflicts, selected,
              transformer, schemaCalls, served>>

----------------------------------------------------------------------------
(* Bounds *)
MaxPathLen == 2
MaxErrors  == 2
MaxSchemaExtensions == 2
MaxSubschemas == 2
MaxLocalTypes == 1
MaxCandidates == 3
MaxSchemaCalls == 2

----------------------------------------------------------------------------
(* Values.  A path segment is a field name or a list index; `text` is the   *)
(* segment written as a property key, `num` tells an index from a name.     *)
Str(s) == [num |-> FALSE, text |-> s]
Num(s) == [num |-> TRUE,  text |-> s]
Segs   == {Str("x"), Str("y"), Num("1")}

RECURSIVE SeqsUpTo(_, _)
SeqsUpTo(S, n) ==
    IF n = 0 THEN {<<>>}
    ELSE LET shorter == SeqsUpTo(S, n - 1)
         IN  shorter \cup {Append(q, x) : q \in {p \in shorter : Len(p) = n - 1}, x \in S}

Undefined == [kind |-> "undefined", v |-> <<>>]
Null      == [kind |-> "null", v |-> <<>>]
Some(x)   == [kind |-> "value", v |-> x]

Paths     == SeqsUpTo(Segs, MaxPathLen)
ErrPaths  == {Undefined} \cup {Some(p) : p \in Paths}
PathArgs  == {Undefined, Null} \cup {Some(p) : p \in Paths}

\* An extensions map is a set of <<key, value>> entries with distinct keys.
ExtKeys == {"a", "b"}
ExtVals == {1, 2}
NoExtensions == [kind |-> "undefined", v |-> {}]
SomeExt(m)   == [kind |-> "value", v |-> m]
ExtMaps == {m \in SUBSET (ExtKeys \X ExtVals) :
                \A p \in m, q \in m : p[1] = q[1] => p = q}
Extensions == {NoExtensions} \cup {SomeExt(m) : m \in ExtMaps}
Keys(m) == {p[1] : p \in m}

\* A GraphQLError.  `id` is the object's identity: 0 for an object made by
\* `new GraphQLError`, positive for an error the caller passes in.
\* `locations` stands for what nodes, source and positions determine.
GraphQLErrors ==
    [id : {1}, message : {"m1", "m2"}, locations : {"undefined", "l1"},
     path : ErrPaths, originalError : {"undefined", "o1"}, extensions : Extensions]

----------------------------------------------------------------------------
(* packages/utils/src/errors.ts *)

NewGraphQLError(message, locations, path, originalError, extensions) ==
    [id |-> 0, message |-> message, locations |-> locations, path |-> path,
     originalError |-> originalError, extensions |-> extensions]

\* relocatedError written with `path == null`, which also inherits on null.
relocatedError_LooseNull(originalError, path) ==
    NewGraphQLError(
        originalError.message,
        originalError.locations,
        IF path.kind = "value" THEN path ELSE originalError.path,
        originalError.originalError,
        originalError.extensions)

relocatedError(originalError, path) ==
    NewGraphQLError(
        originalError.message,
        originalError.locations,
        IF path.kind = "null" THEN Undefined
        ELSE IF path.kind = "undefined" THEN originalError.path
        ELSE path,
        originalError.originalError,
        originalError.extensions)

extendedError(originalError, extensions) ==
    NewGraphQLError(
        originalError.message,
        originalError.locations,
        originalError.path,
        originalError.originalError,
        extensions)

unextendedError(originalError, extensionKey) ==
    LET originalExtensions == originalError.extensions
        newExtensions == {p \in originalExtensions.v : p[1] # extensionKey}
    IN  IF originalExtensions.kind # "value" THEN originalError
        ELSE IF originalExtensions.v = {} THEN originalError
        ELSE IF newExtensions = {} THEN
            NewGraphQLError(originalError.message, originalError.locations,
                            originalError.path, originalError.originalError,
                            NoExtensions)
        ELSE
            NewGraphQLError(originalError.message, originalError.locations,
                            originalError.path, originalError.originalError,
                            SomeExt(newExtensions))

\* Array.prototype.slice(1)
Slice1(p) == IF Len(p) = 0 THEN <<>> ELSE Tail(p)

\* slicedError that forgets to slice.
slicedError_NoSlice(originalError) ==
    relocatedError(originalError, Undefined)

slicedError(originalError) ==
    relocatedError(originalError,
                   IF originalError.path.kind = "value"
                   THEN Some(Slice1(originalError.path.v))
                   ELSE Undefined)

\* Object.create(null) filled by `record[pathSegment] = current`: a function
\* from property keys to error lists.  A segment used as a key is its text.
EmptyRecord == [k \in {} |-> <<>>]

RECURSIVE getErrorsByPathSegmentFrom(_, _, _)
getErrorsByPathSegmentFrom(errs, i, record) ==
    IF i > Len(errs) THEN record
    ELSE LET error == errs[i]
         IN  IF error.path.kind # "value" \/ Len(error.path.v) < 2
             THEN getErrorsByPathSegmentFrom(errs, i + 1, record)
             ELSE LET pathSegment == error.path.v[2].text
                      current == IF pathSegment \in DOMAIN record
                                 THEN record[pathSegment] ELSE <<>>
                      pushed  == Append(current, slicedError(error))
                  IN  getErrorsByPathSegmentFrom(
                          errs, i + 1,
                          [k \in DOMAIN record \cup {pathSegment} |->
                              IF k = pathSegment THEN pushed ELSE record[k]])

getErrorsByPathSegment(errs) == getErrorsByPathSegmentFrom(errs, 1, EmptyRecord)

\* A result value: null, or an object with visible `data` and the hidden
\* ERROR_SYMBOL slot.
NullResult   == [isNull |-> TRUE,  data |-> "none", attached |-> Undefined]
Object(d)    == [isNull |-> FALSE, data |-> d,      attached |-> Undefined]

setErrors(res, errs) == [res EXCEPT !.attached = Some(errs)]

RECURSIVE fieldErrorsFrom(_, _, _)
fieldErrorsFrom(errs, i, pathSegment) ==
    IF i > Len(errs) THEN <<>>
    ELSE LET error == errs[i]
             rest  == fieldErrorsFrom(errs, i + 1, pathSegment)
         IN  IF error.path.kind # "value"
                \/ (Len(error.path.v) > 0 /\ error.path.v[1] = pathSegment)
             THEN <<error>> \o rest
             ELSE rest

\* getErrors that skips errors without a path.
getErrors_PathOnly(res, pathSegment) ==
    LET errs == IF res.isNull THEN Null ELSE res.attached
    IN  IF errs.kind # "value" THEN Null
        ELSE Some(SelectSeq(errs.v,
                 LAMBDA error : /\ error.path.kind = "value"
                                /\ Len(error.path.v) > 0
                                /\ error.path.v[1] = pathSegment))

getErrors(res, pathSegment) ==
    LET errs == IF res.isNull THEN Null ELSE res.attached
    IN  IF errs.kind # "value" THEN Null
        ELSE Some(fieldErrorsFrom(errs.v, 1, pathSegment))

----------------------------------------------------------------------------
(* packages/stitch/src/typeCandidates.ts *)

Operations == {"query", "mutation", "subscription"}

\* An OperationTypeDefinitionNode: `operation: type.name.value`.
OperationType(operation, name) == [operation |-> operation, name |-> name]

RECURSIVE setNames(_, _, _)
setNames(operationTypes, j, names) ==
    IF j > Len(operationTypes) THEN names
    ELSE setNames(operationTypes, j + 1,
                  [names EXCEPT ![operationTypes[j].operation] = operationTypes[j].name])

RECURSIVE setNamesOfNodes(_, _, _)
setNamesOfNodes(allNodes, i, names) ==
    IF i > Len(allNodes) THEN names
    ELSE setNamesOfNodes(
            allNodes, i + 1,
            IF allNodes[i].operationTypes.kind = "value"
            THEN setNames(allNodes[i].operationTypes.v, 1, names)
            ELSE names)

\* setOperationTypeNames with the definition pushed after the extensions.
setOperationTypeNames_DefLast(defs, names) ==
    LET allNodes == IF defs.schemaDef.kind = "value"
                    THEN defs.schemaExtensions \o <<defs.schemaDef.v>>
                    ELSE defs.schemaExtensions
    IN  setNamesOfNodes(allNodes, 1, names)

\* The value of operationTypeNames when setOperationTypeNames returns.
setOperationTypeNames(defs, names) ==
    LET allNodes == IF defs.schemaDef.kind = "value"
                    THEN <<defs.schemaDef.v>> \o defs.schemaExtensions
                    ELSE defs.schemaExtensions
    IN  setNamesOfNodes(allNodes, 1, names)

\* A named type is its name and the place that made the object: a subschema
\* ("s1", "s2", ...), the type definitions, the `types` option, graphql's
\* built-in scalars, mergeCandidates, or a conflict callback.
Type(name, origin) == [name |-> name, origin |-> origin]

SpecifiedScalarNames == {"String", "Int", "Float", "Boolean", "ID"}
isSpecifiedScalarType(type) == type.name \in SpecifiedScalarNames

\* name.slice(0, 2) === '__', over the names the model uses.
IntrospectionNames == {"__Schema", "__Type"}
StartsWithUnderscores(name) == name \in IntrospectionNames

\* The type object a subschema holds under a name ("" names no type: the
\* schema has no such root).  The built-in scalars are shared by all schemas.
TypeOf(i, name) ==
    IF name \in SpecifiedScalarNames THEN Type(name, "builtin")
    ELSE Type(name, "s" \o ToString(i))

NoType == Type("", "none")
NoTypeOpt == [kind |-> "null", v |-> NoType]

\* A MergeTypeCandidate.  subschema / transformedSchema 0: not set.
Candidate(type, i) ==
    [type |-> type, subschema |-> i, transformedSchema |-> i, schemaName |-> "undefined"]
LocalCandidate(type) ==
    [type |-> type, subschema |-> 0, transformedSchema |-> 0, schemaName |-> "undefined"]

EmptyTable == [k \in {} |-> <<>>]

addTypeCandidate(table, name, typeCandidate) ==
    [k \in DOMAIN table \cup {name} |->
        IF k = name
        THEN Append(IF name \in DOMAIN table THEN table[name] ELSE <<>>, typeCandidate)
        ELSE table[k]]

OperationOrder == <<"query", "mutation", "subscription">>

\* schema.getQueryType() etc. of subschema i: the type, or NoType.
operationTypesOf(i, schema) ==
    [o \in Operations |-> IF schema[o] = "" THEN NoType ELSE TypeOf(i, schema[o])]

RECURSIVE addOperationTypes(_, _, _, _, _)
addOperationTypes(table, i, schema, names, k) ==
    IF k > Len(OperationOrder) THEN table
    ELSE LET o == OperationOrder[k]
             t == operationTypesOf(i, schema)[o]
         IN  addOperationTypes(
                 IF t # NoType THEN addTypeCandidate(table, names[o], Candidate(t, i))
                 ELSE table,
                 i, schema, names, k + 1)

\* The type-map loop, filing the root types under their own names as well.
RECURSIVE addNamedTypes_RootsToo(_, _, _, _)
addNamedTypes_RootsToo(table, i, schema, k) ==
    IF k > Len(schema.typeMap) THEN table
    ELSE LET type == TypeOf(i, schema.typeMap[k])
         IN  addNamedTypes_RootsToo(
                 IF ~StartsWithUnderscores(type.name)
                 THEN addTypeCandidate(table, type.name, Candidate(type, i))
                 ELSE table,
                 i, schema, k + 1)

RECURSIVE addNamedTypes(_, _, _, _)
addNamedTypes(table, i, schema, k) ==
    IF k > Len(schema.typeMap) THEN table
    ELSE LET type == TypeOf(i, schema.typeMap[k])
             ops  == operationTypesOf(i, schema)
         IN  addNamedTypes(
                 IF /\ ~StartsWithUnderscores(type.name)
                    /\ type # ops["query"]
                    /\ type # ops["mutation"]
                    /\ type # ops["subscription"]
                 THEN addTypeCandidate(table, type.name, Candidate(type, i))
                 ELSE table,
                 i, schema, k + 1)

RECURSIVE addSubschemas(_, _, _, _)
addSubschemas(table, configs, names, i) ==
    IF i > Len(configs) THEN table
    ELSE addSubschemas(
            addNamedTypes(addOperationTypes(table, i, configs[i], names, 1),
                          i, configs[i], 1),
            configs, names, i + 1)

\* Appends the types of a list of optional types (typeFromAST may give null).
RECURSIVE addLocalTypes(_, _, _)
addLocalTypes(table, optTypes, k) ==
    IF k > Len(optTypes) THEN table
    ELSE addLocalTypes(
            IF optTypes[k].kind = "value"
            THEN addTypeCandidate(table, optTypes[k].v.name, LocalCandidate(optTypes[k].v))
            ELSE table,
            optTypes, k + 1)

\* buildTypeCandidates: the schemaDefs and operationTypeNames it leaves and
\* the table it returns.
buildTypeCandidates(configs, localTypes, defs, names) ==
    LET document == defs
        newDefs ==
            IF document.kind = "value"
            THEN [schemaDef |-> document.v.schemaDef,
                  schemaExtensions |-> document.v.schemaExtensions]
            ELSE [schemaDef |-> Undefined, schemaExtensions |-> <<>>]
        newNames == setOperationTypeNames(newDefs, names)
        fromSubschemas == addSubschemas(EmptyTable, configs, newNames, 1)
        fromTypeDefs ==
            IF document.kind = "value"
            THEN addLocalTypes(fromSubschemas, document.v.definitions, 1)
            ELSE fromSubschemas
        fromTypes ==
            addLocalTypes(fromTypeDefs, [k \in 1..Len(localTypes) |-> Some(localTypes[k])], 1)
    IN  [schemaDefs |-> newDefs, operationTypeNames |-> newNames,
         typeCandidates |-> fromTypes]

\* mergeCandidates (another module): one composite type for the name.
mergeCandidates(typeName, candidates) == Type(typeName, "merged")

\* The conflict callbacks tried: keep the left type, take the right type, or
\* make a type of its own.
onTypeConflictCall(callback, left, right) ==
    CASE callback = "left" -> left
      [] callback = "right" -> right
      [] OTHER -> Type(left.name, "custom")

\* One step of the reduce in onTypeConflictToCandidateSelector, given what
\* the callback returned.
\* The step with the two tests swapped.
reduceStep_NextFirst(prev, next, type) ==
    IF next.type = type THEN next
    ELSE IF prev.type = type THEN prev
    ELSE [type |-> type, subschema |-> 0, transformedSchema |-> 0, schemaName |-> "unknown"]

reduceStep(prev, next, type) ==
    IF prev.type = type THEN prev
    ELSE IF next.type = type THEN next
    ELSE [type |-> type, subschema |-> 0, transformedSchema |-> 0, schemaName |-> "unknown"]

\* The arguments onTypeConflict gets in a step.
conflictArgs(prev, next) ==
    [left |-> prev.type, right |-> next.type,
     leftSchema |-> prev.transformedSchema, rightSchema |-> next.transformedSchema]

RECURSIVE reduceFrom(_, _, _, _)
reduceFrom(callback, cands, prev, k) ==
    IF k > Len(cands) THEN prev
    ELSE reduceFrom(callback, cands,
                    reduceStep(prev, cands[k],
                               onTypeConflictCall(callback, prev.type, cands[k].type)),
                    k + 1)

onTypeConflictToCandidateSelector(callback, cands) ==
    reduceFrom(callback, cands, cands[1], 2)

\* mergeTypes as a function: the filter tried merges the names that have
\* more than one candidate.
mergeTypesFilter(candidates, typeName) == Len(candidates) > 1

\* The merge test without the built-in scalar exception.
shouldMerge_ScalarsToo(table, typeName, names, pol) ==
    \/ typeName = names["query"]
    \/ typeName = names["mutation"]
    \/ typeName = names["subscription"]
    \/ pol.mergeTypes.kind = "boolean" /\ pol.mergeTypes.flag
    \/ /\ pol.mergeTypes.kind = "function"
       /\ mergeTypesFilter(table[typeName], typeName)
    \/ /\ pol.mergeTypes.kind = "list"
       /\ typeName \in pol.mergeTypes.names
    \/ /\ pol.stitchingInfo.kind = "value"
       /\ typeName \in pol.stitchingInfo.v

shouldMerge(table, typeName, names, pol) ==
    \/ typeName = names["query"]
    \/ typeName = names["mutation"]
    \/ typeName = names["subscription"]
    \/ /\ pol.mergeTypes.kind = "boolean" /\ pol.mergeTypes.flag
       /\ ~\E k \in 1..Len(table[typeName]) : isSpecifiedScalarType(table[typeName][k].type)
    \/ /\ pol.mergeTypes.kind = "function"
       /\ mergeTypesFilter(table[typeName], typeName)
    \/ /\ pol.mergeTypes.kind = "list"
       /\ typeName \in pol.mergeTypes.names
    \/ /\ pol.stitchingInfo.kind = "value"
       /\ typeName \in pol.stitchingInfo.v

\* buildTypeMap whose selection takes the first candidate.
buildTypeMap_FirstWins(table, names, pol) ==
    [typeName \in DOMAIN table |->
        IF shouldMerge(table, typeName, names, pol)
        THEN mergeCandidates(typeName, table[typeName])
        ELSE IF pol.onTypeConflict # "none"
             THEN onTypeConflictToCandidateSelector(pol.onTypeConflict, table[typeName]).type
             ELSE table[typeName][1].type]

buildTypeMap(table, names, pol) ==
    [typeName \in DOMAIN table |->
        IF shouldMerge(table, typeName, names, pol)
        THEN mergeCandidates(typeName, table[typeName])
        ELSE IF pol.onTypeConflict # "none"
             THEN onTypeConflictToCandidateSelector(pol.onTypeConflict, table[typeName]).type
             ELSE table[typeName][Len(table[typeName])].type]

----------------------------------------------------------------------------
(* packages/wrap/src/transforms/TransformRootFields.ts *)

\* The TransformObjectFields made by the n-th transformSchema call, holding
\* the closure over the root type names of the schema passed ("" : none).
NewTransformObjectFields(schema, n) ==
    [queryTypeName |-> schema.query, mutationTypeName |-> schema.mutation,
     subscriptionTypeName |-> schema.subscription, made |-> n]

rootToObjectFieldTransformer(t, typeName) ==
    IF typeName = t.queryTypeName THEN "Query"
    ELSE IF typeName = t.mutationTypeName THEN "Mutation"
    ELSE IF typeName = t.subscriptionTypeName THEN "Subscription"
    ELSE "undefined"

NoTransformer ==
    [kind |-> "undefined",
     v |-> NewTransformObjectFields([query |-> "", mutation |-> "", subscription |-> ""], 0)]

\* transformSchema that keeps the inner transformer it already has.
transformSchema_Once(this, schema, n) ==
    IF this.kind = "value" THEN this
    ELSE Some(NewTransformObjectFields(schema, n))

\* this.transformer after the n-th transformSchema call.
transformSchema(this, schema, n) == Some(NewTransformObjectFields(schema, n))

\* transformRequest / transformResult: delegates to this.transformer, which
\* is a TypeError while there is none.
delegateToTransformer(this, op, typeName, n) ==
    [op |-> op, after |-> n, typeName |-> typeName,
     threw |-> this.kind # "value", by |-> this,
     rootType |-> IF this.kind = "value"
                  THEN rootToObjectFieldTransformer(this.v, typeName)
                  ELSE "undefined"]

----------------------------------------------------------------------------
(* The single-error helpers, called on any error with any argument. *)

NoError == [id |-> 1, message |-> "m1", locations |-> "undefined",
            path |-> Undefined, originalError |-> "undefined",
            extensions |-> NoExtensions]

\* A call of a single-error helper: its name, its arguments (those the helper
\* does not take are left at a default) and whether it has returned.
Call(op, e, p, x, k, done) ==
    [op |-> op, error |-> e, path |-> p, extensions |-> x, key |-> k, done |-> done]

ErrIdle ==
    /\ errCall = Call("none", NoError, Undefined, NoExtensions, "a", TRUE)
    /\ errRet = NoError

NameIdle ==
    /\ schemaDefs = [schemaDef |-> Undefined, schemaExtensions |-> <<>>]
    /\ operationTypeNames = [o \in Operations |-> "undefined"]
    /\ namesBefore = operationTypeNames
    /\ namesSet = FALSE

NoPolicy ==
    [mergeTypes |-> [kind |-> "boolean", flag |-> FALSE, names |-> {}],
     stitchingInfo |-> Undefined, onTypeConflict |-> "none"]

NoDocument ==
    [kind |-> "undefined",
     v |-> [schemaDef |-> Undefined, schemaExtensions |-> <<>>, definitions |-> <<>>]]

StitchIdle ==
    /\ subschemaConfigs = <<>>
    /\ typeDefs = NoDocument
    /\ types = <<>>
    /\ typeCandidates = EmptyTable
    /\ policy = NoPolicy
    /\ typeMap = EmptyTable
    /\ stage = "idle"

SelIdle ==
    /\ nameCands = <<>>
    /\ acc = LocalCandidate(NoType)
    /\ nextIndex = 0
    /\ conflicts = <<>>
    /\ selected = NoTypeOpt

NotServed == delegateToTransformer(NoTransformer, "none", "", 0)

RootIdle ==
    /\ transformer = NoTransformer
    /\ schemaCalls = <<>>
    /\ served = NotServed

ListIdle ==
    /\ errors = <<>>
    /\ result = NullResult
    /\ listCall = [op |-> "none", pathSegment |-> Str("x"), before |-> NullResult]
    /\ byPathSegment = EmptyRecord
    /\ fieldErrors = Null

Pending(op) == errCall.op = op /\ ~errCall.done

RelocatedError ==
    /\ Pending("relocatedError")
    /\ errRet' = relocatedError(errCall.error, errCall.path)
    /\ errCall' = [errCall EXCEPT !.done = TRUE]

ExtendedError ==
    /\ Pending("extendedError")
    /\ errRet' = extendedError(errCall.error, errCall.extensions)
    /\ errCall' = [errCall EXCEPT !.done = TRUE]

UnextendedError ==
    /\ Pending("unextendedError")
    /\ errRet' = unextendedError(errCall.error, errCall.key)
    /\ errCall' = [errCall EXCEPT !.done = TRUE]

SlicedError ==
    /\ Pending("slicedError")
    /\ errRet' = slicedError(errCall.error)
    /\ errCall' = [errCall EXCEPT !.done = TRUE]

InitErrors ==
    /\ \E e \in GraphQLErrors :
          \/ \E p \in PathArgs :
                errCall = Call("relocatedError", e, p, NoExtensions, "a", FALSE)
          \/ \E m \in ExtMaps :
                errCall = Call("extendedError", e, Undefined, SomeExt(m), "a", FALSE)
          \/ \E k \in ExtKeys :
                errCall = Call("unextendedError", e, Undefined, NoExtensions, k, FALSE)
          \/ errCall = Call("slicedError", e, Undefined, NoExtensions, "a", FALSE)
    /\ errRet = NoError
    /\ ListIdle
    /\ NameIdle
    /\ StitchIdle
    /\ SelIdle
    /\ RootIdle
NextErrors ==
    /\ \/ RelocatedError
       \/ ExtendedError
       \/ UnextendedError
       \/ SlicedError
    /\ UNCHANGED <<listVars, nameVars, stitchVars, selVars, rootVars>>
SpecErrors == InitErrors /\ [][NextErrors]_vars

----------------------------------------------------------------------------
(* The list helpers, called on an error list of the caller. *)

ListError(i, path) ==
    [id |-> i, message |-> "e" \o ToString(i), locations |-> "undefined",
     path |-> path, originalError |-> "undefined", extensions |-> NoExtensions]

GetErrorsByPathSegment ==
    /\ byPathSegment' = getErrorsByPathSegment(errors)
    /\ listCall' = [op |-> "getErrorsByPathSegment", pathSegment |-> Str("x"),
                    before |-> result]
    /\ UNCHANGED <<errors, result, fieldErrors>>

InitErrorLists ==
    /\ ErrIdle
    /\ \E n \in 0..MaxErrors : \E ps \in [1..n -> ErrPaths] :
          errors = [i \in 1..n |-> ListError(i, ps[i])]
    /\ result = NullResult
    /\ listCall = [op |-> "none", pathSegment |-> Str("x"), before |-> NullResult]
    /\ byPathSegment = EmptyRecord
    /\ fieldErrors = Null
    /\ NameIdle
    /\ StitchIdle
    /\ SelIdle
    /\ RootIdle
NextErrorLists ==
    /\ GetErrorsByPathSegment
    /\ UNCHANGED <<errVars, nameVars, stitchVars, selVars, rootVars>>
SpecErrorLists == InitErrorLists /\ [][NextErrorLists]_vars

----------------------------------------------------------------------------
(* The side channel: an error list is attached to a result value once, and  *)
(* read per field any number of times, before or after.                     *)

SetErrors ==
    /\ ~result.isNull
    /\ result.attached.kind # "value"
    /\ \E n \in 0..MaxErrors : \E ps \in [1..n -> ErrPaths] :
          /\ errors' = [i \in 1..n |-> ListError(i, ps[i])]
          /\ result' = setErrors(result, errors')
    /\ listCall' = [op |-> "setErrors", pathSegment |-> Str("x"), before |-> result]
    /\ fieldErrors' = Null
    /\ UNCHANGED byPathSegment

GetErrors ==
    \E pathSegment \in Segs :
        /\ fieldErrors' = getErrors(result, pathSegment)
        /\ listCall' = [op |-> "getErrors", pathSegment |-> pathSegment,
                        before |-> result]
        /\ UNCHANGED <<errors, result, byPathSegment>>

InitSideChannel ==
    /\ ErrIdle
    /\ errors = <<>>
    /\ result \in {NullResult, Object("d1")}
    /\ listCall = [op |-> "none", pathSegment |-> Str("x"), before |-> NullResult]
    /\ byPathSegment = EmptyRecord
    /\ fieldErrors = Null
    /\ NameIdle
    /\ StitchIdle
    /\ SelIdle
    /\ RootIdle
NextSideChannel ==
    /\ \/ SetErrors
       \/ GetErrors
    /\ UNCHANGED <<errVars, nameVars, stitchVars, selVars, rootVars>>
SpecSideChannel == InitSideChannel /\ [][NextSideChannel]_vars

----------------------------------------------------------------------------
(* setOperationTypeNames, called on the schema definition and extensions of  *)
(* the type definitions.                                                    *)

RootNames == {"A", "B"}

\* Schema definition / extension nodes: without operation types, naming one
\* operation, or naming one operation twice.
Nodes ==
    {[operationTypes |-> Undefined]}
    \cup {[operationTypes |-> Some(<<OperationType(o, n)>>)] :
            o \in Operations, n \in RootNames}
    \cup {[operationTypes |-> Some(<<OperationType(o, p[1]), OperationType(o, p[2])>>)] :
            o \in Operations, p \in {q \in RootNames \X RootNames : q[1] # q[2]}}

DefaultNames ==
    [query |-> "Query", mutation |-> "Mutation", subscription |-> "Subscription"]

SetOperationTypeNames ==
    /\ ~namesSet
    /\ namesBefore' = operationTypeNames
    /\ operationTypeNames' = setOperationTypeNames(schemaDefs, operationTypeNames)
    /\ namesSet' = TRUE
    /\ UNCHANGED schemaDefs

InitNames ==
    /\ ErrIdle
    /\ ListIdle
    /\ \E d \in {Undefined} \cup {Some(n) : n \in Nodes} :
       \E k \in 0..MaxSchemaExtensions : \E x \in [1..k -> Nodes] :
          schemaDefs = [schemaDef |-> d, schemaExtensions |-> [i \in 1..k |-> x[i]]]
    /\ operationTypeNames \in
          {DefaultNames, [DefaultNames EXCEPT !.subscription = "undefined"]}
    /\ namesBefore = operationTypeNames
    /\ namesSet = FALSE
    /\ StitchIdle
    /\ SelIdle
    /\ RootIdle
NextNames ==
    /\ SetOperationTypeNames
    /\ UNCHANGED <<errVars, listVars, stitchVars, selVars, rootVars>>
SpecNames == InitNames /\ [][NextNames]_vars

----------------------------------------------------------------------------
(* Stitching: buildTypeCandidates, then buildTypeMap *)

NonEmpty(q) == SelectSeq(q, LAMBDA n : n # "")

\* A subschema: its root type names ("" for none) and the keys of its type
\* map: the roots, the introspection types, then the other types.
Schema(q, m, sub, others) ==
    [query |-> q, mutation |-> m, subscription |-> sub,
     typeMap |-> NonEmpty(<<q, m, sub>>) \o <<"__Schema">> \o others]

RootShapes ==
    {<<"", "", "">>, <<"Query", "", "">>, <<"RootQ", "", "">>,
     <<"Query", "Mutation", "">>, <<"RootQ", "Mutation", "">>,
     <<"Query", "", "Subscription">>}

CollectSchemas ==
    {Schema(r[1], r[2], r[3], o) : r \in RootShapes, o \in {<<>>, <<"String", "User">>}}
    \cup {Schema("RootQ", "", "", <<"Query">>)}

MergeSchemas ==
    {Schema("Query", "", "", <<"String", "User">>),
     Schema("RootQ", "", "", <<"User">>),
     Schema("", "", "", <<"String", "User">>)}

RootQDef == [operationTypes |-> Some(<<OperationType("query", "RootQ")>>)]

Document(d, defs) ==
    [kind |-> "value",
     v |-> [schemaDef |-> d, schemaExtensions |-> <<>>, definitions |-> defs]]

Policies ==
    [mergeTypes : {[kind |-> "boolean", flag |-> TRUE, names |-> {}],
                   [kind |-> "boolean", flag |-> FALSE, names |-> {}],
                   [kind |-> "list", flag |-> FALSE, names |-> {"User"}],
                   [kind |-> "function", flag |-> FALSE, names |-> {}]},
     stitchingInfo : {Undefined, Some({"User"})},
     onTypeConflict : {"none", "left", "right", "custom"}]

BuildTypeCandidates ==
    /\ stage = "inputs"
    /\ LET r == buildTypeCandidates(subschemaConfigs, types, typeDefs, operationTypeNames)
       IN  /\ schemaDefs' = r.schemaDefs
           /\ operationTypeNames' = r.operationTypeNames
           /\ typeCandidates' = r.typeCandidates
    /\ namesBefore' = operationTypeNames
    /\ namesSet' = TRUE
    /\ stage' = "candidates"
    /\ UNCHANGED <<subschemaConfigs, typeDefs, types, policy, typeMap>>

BuildTypeMap ==
    /\ stage = "candidates"
    /\ typeMap' = buildTypeMap(typeCandidates, operationTypeNames, policy)
    /\ stage' = "typeMap"
    /\ UNCHANGED <<nameVars, subschemaConfigs, typeDefs, types, typeCandidates, policy>>

StitchStart ==
    /\ ErrIdle
    /\ ListIdle
    /\ SelIdle
    /\ RootIdle
    /\ schemaDefs = [schemaDef |-> Undefined, schemaExtensions |-> <<>>]
    /\ operationTypeNames = DefaultNames
    /\ namesBefore = operationTypeNames
    /\ namesSet = FALSE
    /\ typeCandidates = EmptyTable
    /\ typeMap = EmptyTable
    /\ stage = "inputs"

InitCollect ==
    /\ StitchStart
    /\ \E n \in 0..MaxSubschemas : \E c \in [1..n -> CollectSchemas] :
          subschemaConfigs = [i \in 1..n |-> c[i]]
    /\ \/ typeDefs = NoDocument
       \/ \E d \in {Undefined, Some(RootQDef)} :
          \E n \in 0..MaxLocalTypes :
          \E ds \in [1..n -> {Some(Type("User", "typeDefs")), NoTypeOpt}] :
             typeDefs = Document(d, [i \in 1..n |-> ds[i]])
    /\ \E n \in 0..MaxLocalTypes :
          types = [i \in 1..n |-> Type("User", "types")]
    /\ policy = NoPolicy
NextCollect ==
    /\ BuildTypeCandidates
    /\ UNCHANGED <<errVars, listVars, selVars, rootVars>>
SpecCollect == InitCollect /\ [][NextCollect]_vars

InitMerge ==
    /\ StitchStart
    /\ \E n \in 0..MaxSubschemas : \E c \in [1..n -> MergeSchemas] :
          subschemaConfigs = [i \in 1..n |-> c[i]]
    /\ typeDefs = NoDocument
    /\ \E n \in 0..MaxLocalTypes :
          types = [i \in 1..n |-> Type("User", "types")]
    /\ policy \in Policies
NextMerge ==
    /\ \/ BuildTypeCandidates
       \/ BuildTypeMap
    /\ UNCHANGED <<errVars, listVars, selVars, rootVars>>
SpecMerge == InitMerge /\ [][NextMerge]_vars

----------------------------------------------------------------------------
(* Selection with a conflict callback: the reduce of                        *)
(* onTypeConflictToCandidateSelector, one callback call per step, the       *)
(* callback free to return any type.                                        *)

\* The k-th candidate of a name: a type of its own or a type object shared
\* with other candidates, from subschema k or locally declared.
CandidatesAt(k) ==
    {[type |-> t, subschema |-> i, transformedSchema |-> i, schemaName |-> "undefined"] :
        t \in {Type("T", "s" \o ToString(k)), Type("T", "shared")}, i \in {0, k}}

CustomTypes == {Type("T", "custom1"), Type("T", "custom2")}

ConflictStep ==
    /\ nextIndex >= 2 /\ nextIndex <= Len(nameCands)
    /\ \E type \in {acc.type, nameCands[nextIndex].type} \cup CustomTypes :
          /\ conflicts' = Append(conflicts,
                                 [args |-> conflictArgs(acc, nameCands[nextIndex]),
                                  returned |-> type])
          /\ acc' = reduceStep(acc, nameCands[nextIndex], type)
    /\ nextIndex' = nextIndex + 1
    /\ UNCHANGED <<nameCands, selected>>

SelectReturn ==
    /\ nextIndex > Len(nameCands)
    /\ selected = NoTypeOpt
    /\ selected' = Some(acc.type)
    /\ UNCHANGED <<nameCands, acc, nextIndex, conflicts>>

InitSelect ==
    /\ ErrIdle
    /\ ListIdle
    /\ NameIdle
    /\ StitchIdle
    /\ RootIdle
    /\ \E n \in 1..MaxCandidates :
       \E c \in [1..n -> UNION {CandidatesAt(k) : k \in 1..n}] :
          /\ \A k \in 1..n : c[k] \in CandidatesAt(k)
          /\ nameCands = [k \in 1..n |-> c[k]]
    /\ acc = nameCands[1]
    /\ nextIndex = 2
    /\ conflicts = <<>>
    /\ selected = NoTypeOpt
NextSelect ==
    /\ \/ ConflictStep
       \/ SelectReturn
    /\ UNCHANGED <<errVars, listVars, nameVars, stitchVars, rootVars>>
SpecSelect == InitSelect /\ [][NextSelect]_vars

----------------------------------------------------------------------------
(* One TransformRootFields instance, its three methods called in any order. *)

RootSchemas ==
    {[query |-> "Query", mutation |-> "Mutation", subscription |-> ""],
     [query |-> "RootQ", mutation |-> "", subscription |-> "Sub"],
     [query |-> "Query", mutation |-> "", subscription |-> ""],
     [query |-> "", mutation |-> "", subscription |-> ""]}

RootTypeNames == {"Query", "RootQ", "Mutation"}

TransformSchema ==
    /\ Len(schemaCalls) < MaxSchemaCalls
    /\ \E originalWrappingSchema \in RootSchemas :
          /\ transformer' = transformSchema(transformer, originalWrappingSchema,
                                            Len(schemaCalls) + 1)
          /\ schemaCalls' = Append(schemaCalls, originalWrappingSchema)
    /\ UNCHANGED served

TransformRequest ==
    /\ \E typeName \in RootTypeNames :
          served' = delegateToTransformer(transformer, "transformRequest", typeName,
                                          Len(schemaCalls))
    /\ UNCHANGED <<transformer, schemaCalls>>

TransformResult ==
    /\ \E typeName \in RootTypeNames :
          served' = delegateToTransformer(transformer, "transformResult", typeName,
                                          Len(schemaCalls))
    /\ UNCHANGED <<transformer, schemaCalls>>

InitRoot ==
    /\ ErrIdle
    /\ ListIdle
    /\ NameIdle
    /\ StitchIdle
    /\ SelIdle
    /\ RootIdle
NextRoot ==
    /\ \/ TransformSchema
       \/ TransformRequest
       \/ TransformResult
    /\ UNCHANGED <<errVars, listVars, nameVars, stitchVars, selVars>>
SpecRoot == InitRoot /\ [][NextRoot]_vars

----------------------------------------------------------------------------
(* Properties of the error helpers *)

Returned(op) == errCall.op = op /\ errCall.done

SameButPath(r, e) ==
    /\ r.message = e.message
    /\ r.locations = e.locations
    /\ r.originalError = e.originalError
    /\ r.extensions = e.extensions

\* C3 as stated: relocatedError(error, path) returns a new error whose path is
\* the original's when path is null or absent, [] when path is [], and the
\* given path otherwise; message, locations, originalError and extensions are
\* the original's.
C3_AsClaimed ==
    Returned("relocatedError") =>
        /\ errRet.id = 0
        /\ errRet.path = (IF errCall.path.kind = "value" THEN errCall.path
                          ELSE errCall.error.path)
        /\ SameButPath(errRet, errCall.error)

\* C3 amended: relocatedError(error, path) returns a new error that has no
\* path when path is null, the original's path when no path is given, [] when
\* path is [], and the given path otherwise; message, locations,
\* originalError and extensions are the original's in all four cases.
C3_RelocatedPath ==
    Returned("relocatedError") =>
        /\ errRet.id = 0
        /\ errRet.path = (CASE errCall.path.kind = "null" -> Undefined
                            [] errCall.path.kind = "undefined" -> errCall.error.path
                            [] OTHER -> errCall.path)
        /\ SameButPath(errRet, errCall.error)

C3_Witness ==
    /\ Returned("relocatedError")
    /\ errCall.path.kind = "null"
    /\ errCall.error.path.kind = "value"
    /\ Len(errCall.error.path.v) > 0
    /\ errRet.path = Undefined

\* The entries of `old` with those of `new` added (a new entry replaces the
\* old one under the same key).
ExtPlus(old, new) == new \cup {p \in old : p[1] \notin Keys(new)}

SameButExtensions(r, e) ==
    /\ r.message = e.message
    /\ r.path = e.path
    /\ r.locations = e.locations

\* C9: extendedError(error, ext) returns an error whose extensions are the
\* original's entries plus those of ext; unextendedError(error, key) returns
\* one whose extensions are the original's minus the entry under key (none
\* when that was the only entry, the original error itself when it had none);
\* message, path and locations are the original's.
C9_ExtensionsOnly ==
    /\ Returned("extendedError") =>
          /\ errRet.extensions =
                SomeExt(ExtPlus(errCall.error.extensions.v, errCall.extensions.v))
          /\ SameButExtensions(errRet, errCall.error)
    /\ Returned("unextendedError") =>
          LET old  == errCall.error.extensions
              left == {p \in old.v : p[1] # errCall.key}
          IN  /\ (old.kind # "value" \/ old.v = {}) => errRet = errCall.error
              /\ (old.kind = "value" /\ old.v # {}) =>
                    errRet.extensions =
                        (IF left = {} THEN NoExtensions ELSE SomeExt(left))
              /\ SameButExtensions(errRet, errCall.error)

\* Indices of the errors of `errs` that have a path of at least n segments.
WithPath(errs, n) ==
    {i \in 1..Len(errs) : errs[i].path.kind = "value" /\ Len(errs[i].path.v) >= n}

\* The j-th smallest element of a set of indices.
Nth(S, j) == CHOOSE i \in S : Cardinality({i2 \in S : i2 <= i}) = j

\* The errors of `errs` at the indices S, in input order, each as `f` maps it.
Picked(errs, S, f(_)) == [j \in 1..Cardinality(S) |-> f(errs[Nth(S, j)])]

Stripped(e) == [e EXCEPT !.id = 0, !.path = Some(Tail(e.path.v))]

\* The errors with a path of two or more segments, grouped in input order
\* under the text of path segment number `pos`, each with its first segment
\* removed.
GroupedBy(errs, pos) ==
    LET Q == WithPath(errs, 2)
        K == {errs[i].path.v[pos].text : i \in Q}
    IN  [k \in K |->
            Picked(errs, {i \in Q : errs[i].path.v[pos].text = k}, Stripped)]

\* C4 as stated: getErrorsByPathSegment drops the errors with no path or a
\* one-segment path and lists every other error once, in input order, under
\* the key path[0], with that leading segment removed.
C4_AsClaimed ==
    listCall.op = "getErrorsByPathSegment" => byPathSegment = GroupedBy(errors, 1)

\* C4 amended: getErrorsByPathSegment drops the errors with no path or a
\* one-segment path and lists every other error once, in input order, under
\* the key path[1] (the second segment), with the leading segment path[0]
\* removed, so that the key is the first segment of the stored path.
C4_GroupedBySecondSegment ==
    listCall.op = "getErrorsByPathSegment" =>
        /\ byPathSegment = GroupedBy(errors, 2)
        /\ \A k \in DOMAIN byPathSegment :
              \A j \in 1..Len(byPathSegment[k]) :
                  byPathSegment[k][j].path.v[1].text = k

C4_Witness ==
    /\ listCall.op = "getErrorsByPathSegment"
    /\ Len(errors) = 2
    /\ 1 \in WithPath(errors, 2)
    /\ errors[1].path.v[1] # errors[1].path.v[2]
    /\ errors[2].path.kind = "value" /\ Len(errors[2].path.v) = 1
    /\ DOMAIN byPathSegment = {errors[1].path.v[2].text}

Same(e) == e

\* What getErrors returns for the value it was called on, when the errors it
\* keeps are those at the indices Keep(attached list).
GetErrorsReturns(Keep(_)) ==
    LET res == listCall.before
    IN  IF res.isNull \/ res.attached.kind # "value" THEN fieldErrors = Null
        ELSE fieldErrors = Some(Picked(res.attached.v, Keep(res.attached.v), Same))

Leading(errs, seg) == {i \in WithPath(errs, 1) : errs[i].path.v[1] = seg}
Unpathed(errs) == {i \in 1..Len(errs) : errs[i].path.kind # "value"}

\* C6 as stated: getErrors(result, fieldName) returns, in attached order, only
\* the attached errors whose path[0] is fieldName, the whole list only when no
\* attached error has a path; result is unchanged; null is returned for a
\* null value or one with no attached list.
C6_AsClaimed ==
    listCall.op = "getErrors" =>
        /\ result = listCall.before
        /\ GetErrorsReturns(LAMBDA errs :
               IF Unpathed(errs) = 1..Len(errs) THEN 1..Len(errs)
               ELSE Leading(errs, listCall.pathSegment))

\* C6 amended: getErrors(result, fieldName) returns, in attached order, the
\* attached errors that have no path or whose path[0] is fieldName; result
\* (data and attached list) is unchanged; null is returned for a null value
\* or one with no attached list.
C6_FieldErrors ==
    listCall.op = "getErrors" =>
        /\ result = listCall.before
        /\ GetErrorsReturns(LAMBDA errs :
               Unpathed(errs) \cup Leading(errs, listCall.pathSegment))

C6_Witness ==
    /\ listCall.op = "getErrors"
    /\ result.attached.kind = "value"
    /\ Len(result.attached.v) = 2
    /\ Unpathed(result.attached.v) = {1}
    /\ Leading(result.attached.v, listCall.pathSegment) = {}
    /\ fieldErrors = Some(<<result.attached.v[1]>>)

----------------------------------------------------------------------------
(* Properties of setOperationTypeNames *)

Names(node, o) ==
    IF node.operationTypes.kind # "value" THEN {}
    ELSE {j \in 1..Len(node.operationTypes.v) : node.operationTypes.v[j].operation = o}

\* The name a node gives operation o: that of its last entry for o.
NameIn(node, o) ==
    node.operationTypes.v[CHOOSE j \in Names(node, o) :
                              \A j2 \in Names(node, o) : j2 <= j].name

Naming(o) ==
    {i \in 1..Len(schemaDefs.schemaExtensions) :
        Names(schemaDefs.schemaExtensions[i], o) # {}}

LastExtensionName(o) ==
    NameIn(schemaDefs.schemaExtensions[
              CHOOSE i \in Naming(o) : \A i2 \in Naming(o) : i2 <= i], o)

DefNames(o) ==
    schemaDefs.schemaDef.kind = "value" /\ Names(schemaDefs.schemaDef.v, o) # {}

\* C5 as stated: the name stored for an operation is the schema definition's
\* when the definition names one, else the last extension's that names one,
\* else the value operationTypeNames already had.
C5_AsClaimed ==
    namesSet =>
        \A o \in Operations :
            operationTypeNames[o] =
                IF DefNames(o) THEN NameIn(schemaDefs.schemaDef.v, o)
                ELSE IF Naming(o) # {} THEN LastExtensionName(o)
                ELSE namesBefore[o]

\* C5 amended: the name stored for an operation is that of the last schema
\* extension that names one (an extension overrides the schema definition),
\* else the schema definition's, else the value operationTypeNames already had.
C5_LastNodeWins ==
    namesSet =>
        \A o \in Operations :
            operationTypeNames[o] =
                IF Naming(o) # {} THEN LastExtensionName(o)
                ELSE IF DefNames(o) THEN NameIn(schemaDefs.schemaDef.v, o)
                ELSE namesBefore[o]

C5_Witness ==
    /\ namesSet
    /\ DefNames("query")
    /\ Naming("query") # {}
    /\ LastExtensionName("query") # NameIn(schemaDefs.schemaDef.v, "query")
    /\ operationTypeNames["query"] = LastExtensionName("query")
    /\ operationTypeNames["mutation"] = namesBefore["mutation"]

----------------------------------------------------------------------------
(* Properties of buildTypeCandidates and buildTypeMap *)

Cands(n) == typeCandidates[n]
CandTypes(n) == {Cands(n)[k].type : k \in 1..Len(Cands(n))}

\* The merge conditions of a type name, as the claim lists them.
MergeCond(n) ==
    \/ n \in {operationTypeNames[o] : o \in Operations}
    \/ /\ policy.mergeTypes = [kind |-> "boolean", flag |-> TRUE, names |-> {}]
       /\ \A t \in CandTypes(n) : t.name \notin SpecifiedScalarNames
    \/ /\ policy.mergeTypes.kind = "function"
       /\ mergeTypesFilter(Cands(n), n)
    \/ /\ policy.mergeTypes.kind = "list"
       /\ n \in policy.mergeTypes.names
    \/ /\ policy.stitchingInfo.kind = "value"
       /\ n \in policy.stitchingInfo.v

\* C1: buildTypeMap merges the candidates of a name exactly when the name is
\* a resolved root operation type name, or mergeTypes is true and no candidate
\* is a built-in scalar, or the mergeTypes predicate accepts it, or the
\* mergeTypes list contains it, or stitchingInfo.mergedTypes has it; otherwise
\* it selects a single candidate.  A root operation type is merged under every
\* policy, with or without a conflict callback.
C1_MergeExactlyWhen ==
    stage = "typeMap" =>
        /\ DOMAIN typeMap = DOMAIN typeCandidates
        /\ \A n \in DOMAIN typeCandidates :
              /\ (typeMap[n] = Type(n, "merged")) <=> MergeCond(n)
              /\ (~MergeCond(n) /\ policy.onTypeConflict \in {"none", "left", "right"})
                    => typeMap[n] \in CandTypes(n)
        /\ \A o \in Operations :
              operationTypeNames[o] \in DOMAIN typeCandidates =>
                  typeMap[operationTypeNames[o]].origin = "merged"

C1_Witness ==
    /\ stage = "typeMap"
    /\ policy.mergeTypes.kind = "boolean" /\ policy.mergeTypes.flag
    /\ policy.stitchingInfo = Undefined
    /\ policy.onTypeConflict = "right"
    /\ {"Query", "String", "User"} \subseteq DOMAIN typeMap
    /\ Len(Cands("Query")) = 2 /\ typeMap["Query"].origin = "merged"
    /\ Len(Cands("String")) = 2 /\ typeMap["String"].origin = "builtin"
    /\ typeMap["User"].origin = "merged"

\* Positions of the candidates of n that come from a subschema.
FromSubschemas(n) == {k \in 1..Len(Cands(n)) : Cands(n)[k].subschema # 0}
Last(S) == CHOOSE k \in S : \A k2 \in S : k2 <= k

\* C2 as stated: without a conflict callback, the composite type of every
\* name with more than one candidate is the type of the last subschema's
\* candidate.
C2_AsClaimed ==
    (stage = "typeMap" /\ policy.onTypeConflict = "none") =>
        \A n \in DOMAIN typeCandidates :
            (Len(Cands(n)) > 1 /\ FromSubschemas(n) # {}) =>
                typeMap[n] = Cands(n)[Last(FromSubschemas(n))].type

\* C2 amended: without a conflict callback, the composite type of every name
\* with more than one candidate that is not merged is the type of the last
\* candidate of its list: the last subschema's candidate in registration order
\* when no locally declared type has that name, else the last locally declared
\* type of that name.
C2_LastCandidateWins ==
    (stage = "typeMap" /\ policy.onTypeConflict = "none") =>
        \A n \in DOMAIN typeCandidates :
            (Len(Cands(n)) > 1 /\ ~MergeCond(n)) =>
                /\ typeMap[n] = Cands(n)[Len(Cands(n))].type
                /\ FromSubschemas(n) = 1..Len(Cands(n)) =>
                      /\ typeMap[n] = Cands(n)[Last(FromSubschemas(n))].type
                      /\ \A k \in 1..Len(Cands(n)) :
                            Cands(n)[k].subschema <= Cands(n)[Len(Cands(n))].subschema
                /\ FromSubschemas(n) # 1..Len(Cands(n)) =>
                      typeMap[n].origin = "types"

C2_Witness ==
    /\ stage = "typeMap"
    /\ policy = NoPolicy
    /\ "User" \in DOMAIN typeMap
    /\ Len(Cands("User")) = 2
    /\ FromSubschemas("User") = {1, 2}
    /\ typeMap["User"] = Type("User", "s2")

Sub(i) == subschemaConfigs[i]
RootsOf(schema) == {schema[o] : o \in Operations} \ {""}
\* The global names that root type `name` of a subschema is filed under.
GlobalNames(schema, name) ==
    {operationTypeNames[o] : o \in {o2 \in Operations : schema[o2] = name}}
Filed(n, cand) == n \in DOMAIN typeCandidates /\ \E k \in 1..Len(Cands(n)) : Cands(n)[k] = cand
Positions(q) == 1..Len(q)
OwnNamed(schema) ==
    {k \in Positions(schema.typeMap) :
        /\ schema.typeMap[k] \notin RootsOf(schema)
        /\ ~StartsWithUnderscores(schema.typeMap[k])}
Defined == {k \in Positions(typeDefs.v.definitions) : typeDefs.v.definitions[k].kind = "value"}

RECURSIVE Sum(_, _)
Sum(f, S) == IF S = {} THEN 0
             ELSE LET x == CHOOSE y \in S : TRUE IN f[x] + Sum(f, S \ {x})

\* C8: buildTypeCandidates files each subschema's query, mutation and
\* subscription type under the global root operation type name and under no
\* other name, files every other type not named '__...' under its own name,
\* and gives no introspection type a candidate; every list is non-empty and
\* ordered by subschema list order, then the typeDefs types, then `types`.
C8_CandidateTable ==
    stage = "candidates" =>
        /\ \A i \in Positions(subschemaConfigs) :
              /\ \A r \in RootsOf(Sub(i)) :
                    \A n \in DOMAIN typeCandidates \cup GlobalNames(Sub(i), r) :
                        Filed(n, Candidate(TypeOf(i, r), i)) <=> n \in GlobalNames(Sub(i), r)
              /\ \A k \in OwnNamed(Sub(i)) :
                    \A n \in DOMAIN typeCandidates \cup {Sub(i).typeMap[k]} :
                        Filed(n, Candidate(TypeOf(i, Sub(i).typeMap[k]), i))
                            <=> n = Sub(i).typeMap[k]
        /\ \A n \in DOMAIN typeCandidates :
              /\ Len(Cands(n)) > 0
              /\ \A k \in Positions(Cands(n)) :
                    /\ ~StartsWithUnderscores(Cands(n)[k].type.name)
                    /\ Cands(n)[k].subschema \in 0..Len(subschemaConfigs)
              /\ \A j \in Positions(Cands(n)), k \in Positions(Cands(n)) :
                    j < k =>
                        /\ Cands(n)[j].subschema = 0 => Cands(n)[k].subschema = 0
                        /\ Cands(n)[k].subschema # 0 =>
                              Cands(n)[j].subschema <= Cands(n)[k].subschema
                        /\ Cands(n)[j].type.origin = "types" =>
                              Cands(n)[k].type.origin = "types"
        /\ Sum([n \in DOMAIN typeCandidates |-> Len(Cands(n))], DOMAIN typeCandidates)
             = Sum([i \in Positions(subschemaConfigs) |->
                       Cardinality({o \in Operations : Sub(i)[o] # ""})
                       + Cardinality(OwnNamed(Sub(i)))],
                   Positions(subschemaConfigs))
               + Cardinality(Defined) + Len(types)

C8_Witness ==
    /\ stage = "candidates"
    /\ Len(subschemaConfigs) = 2
    /\ Sub(1).query = "RootQ" /\ Sub(2).query = "Query"
    /\ operationTypeNames["query"] = "Query"
    /\ "RootQ" \notin DOMAIN typeCandidates
    /\ Cands("Query") = <<Candidate(Type("RootQ", "s1"), 1), Candidate(Type("Query", "s2"), 2)>>
    /\ "User" \in DOMAIN typeCandidates
    /\ Len(Cands("User")) = 3
    /\ Cands("User")[1].subschema = 1
    /\ Cands("User")[2].type = Type("User", "typeDefs")
    /\ Cands("User")[3].type = Type("User", "types")

----------------------------------------------------------------------------
(* Properties of the selection with a conflict callback *)

Unknown(type) ==
    [type |-> type, subschema |-> 0, transformedSchema |-> 0, schemaName |-> "unknown"]

\* The accumulator after k callback calls: kept when the callback returned
\* the left type, else the next candidate when it returned the right type,
\* else the returned type with unknown origin.
RECURSIVE AccAfter(_)
AccAfter(k) ==
    IF k = 0 THEN nameCands[1]
    ELSE LET prev == AccAfter(k - 1)
             next == nameCands[k + 1]
             returned == conflicts[k].returned
         IN  IF returned = prev.type THEN prev
             ELSE IF returned = next.type THEN next
             ELSE Unknown(returned)

\* C7: the selection reduces the candidates pairwise, left to right, with
\* n-1 callback calls for n candidates (none for one), each with the
\* accumulator's type as left, the next candidate's as right and each side's
\* transformed schema; the accumulator is kept on left, becomes the next
\* candidate on right, and becomes the returned type with unknown origin (no
\* schema for the following call) on neither; the composite type is the
\* final accumulator's type.
C7_PairwiseReduce ==
    nextIndex > 0 =>
        /\ Len(conflicts) = nextIndex - 2
        /\ Len(conflicts) <= Len(nameCands) - 1
        /\ \A k \in 1..Len(conflicts) :
              /\ conflicts[k].args.left = AccAfter(k - 1).type
              /\ conflicts[k].args.leftSchema = AccAfter(k - 1).transformedSchema
              /\ conflicts[k].args.right = nameCands[k + 1].type
              /\ conflicts[k].args.rightSchema = nameCands[k + 1].transformedSchema
              /\ (k > 1 /\ conflicts[k - 1].returned \in CustomTypes) =>
                    /\ conflicts[k].args.left = conflicts[k - 1].returned
                    /\ conflicts[k].args.leftSchema = 0
        /\ acc = AccAfter(Len(conflicts))
        /\ selected # NoTypeOpt =>
              /\ Len(conflicts) = Len(nameCands) - 1
              /\ selected = Some(AccAfter(Len(nameCands) - 1).type)

C7_Witness ==
    /\ selected # NoTypeOpt
    /\ Len(nameCands) = 3
    /\ Len(conflicts) = 2
    /\ nameCands[1].transformedSchema = 1
    /\ conflicts[1].returned \in CustomTypes
    /\ conflicts[2].args.left = conflicts[1].returned
    /\ conflicts[2].args.leftSchema = 0
    /\ conflicts[2].args.rightSchema = 3
    /\ conflicts[2].returned = nameCands[3].type
    /\ selected = Some(nameCands[3].type)

----------------------------------------------------------------------------
(* Properties of TransformRootFields *)

\* The inner transformer made by the n-th transformSchema call.
TransformerOf(n) ==
    IF n = 0 THEN NoTransformer
    ELSE Some(NewTransformObjectFields(schemaCalls[n], n))

\* The root type a schema's root type names give a type name.
DispatchOf(schema, typeName) ==
    CASE typeName = schema.query -> "Query"
      [] typeName # schema.query /\ typeName = schema.mutation -> "Mutation"
      [] typeName \notin {schema.query, schema.mutation}
            /\ typeName = schema.subscription -> "Subscription"
      [] OTHER -> "undefined"

\* C10: every transformRequest / transformResult call is served by the inner
\* transformer that the most recent preceding transformSchema call made, bound
\* to the root type names of the schema passed to that call; the inner
\* transformer is replaced by every transformSchema call and by nothing else.
C10_ServedByLatest ==
    /\ transformer = TransformerOf(Len(schemaCalls))
    /\ served.op # "none" =>
          /\ served.after <= Len(schemaCalls)
          /\ served.by = TransformerOf(served.after)
          /\ served.after > 0 =>
                /\ ~served.threw
                /\ served.rootType =
                      DispatchOf(schemaCalls[served.after], served.typeName)

C10_Witness ==
    /\ Len(schemaCalls) = 2
    /\ schemaCalls[1].query = "Query"
    /\ schemaCalls[2].query = "RootQ"
    /\ served.op = "transformRequest"
    /\ served.after = 2
    /\ served.typeName = "Query"
    /\ served.rootType = "undefined"
    /\ served.by.v.queryTypeName = "RootQ"

====
